---- MODULE Spec2Model ----
(***************************************************************************)
(* Model of metriken-exposition/src/snapshot.rs: the Snapshot data model   *)
(* (V1/V2), its drain accessors, the metric-name canonicalization, the     *)
(* HashedSnapshot projection and the serde encodings of a Snapshot.        *)
(***************************************************************************)
EXTENDS Integers, Sequences, FiniteSets, TLC

VARIABLES
    cname,       \* canonicalize_metric_name: the snapshot_name argument
    cmeta,       \* canonicalize_metric_name: the metadata argument (a HashMap)
    cresult,     \* Some(the String canonicalize_metric_name returned), or None
    snapshot,    \* the Snapshot value (V1 or V2)
    constructed, \* history: the Snapshot as it was constructed
    drained,     \* history: the drain accessors called so far
    ret,         \* the last accessor call: its name, what it returned, and
                 \* whether it was the first call of that accessor
    hashed,      \* outcome of HashedSnapshot::from(snapshot)
    wire,        \* outcome of Snapshot::to_json / Snapshot::to_msgpack
    decoded      \* outcome of deserializing `wire` as a Snapshot

vars == <<cname, cmeta, cresult, snapshot, constructed, drained, ret,
          hashed, wire, decoded>>

\* Option<T>: None is the empty sequence, Some(x) the one-element sequence.
None == <<>>

Some(x) == <<x>>

(***************************************************************************)
(* Strings.  Values are TLA+ strings (only concatenation is applied to     *)
(* them).  Metadata keys are TLA+ strings too; their UTF-8 bytes, which    *)
(* decide the order of a BTreeMap<&str, _>, are given by Utf8.             *)
(***************************************************************************)
Utf8 ==
    [ metric          |-> <<109, 101, 116, 114, 105, 99>>,
      name            |-> <<110, 97, 109, 101>>,
      op              |-> <<111, 112>>,
      state           |-> <<115, 116, 97, 116, 101>>,
      direction       |-> <<100, 105, 114, 101, 99, 116, 105, 111, 110>>,
      unit            |-> <<117, 110, 105, 116>>,
      grouping_power  |-> <<103, 114, 111, 117, 112, 105, 110, 103, 95, 112,
                            111, 119, 101, 114>>,
      max_value_power |-> <<109, 97, 120, 95, 118, 97, 108, 117, 101, 95,
                            112, 111, 119, 101, 114>>,
      id              |-> <<105, 100>>,
      core            |-> <<99, 111, 114, 101>>,
      iface           |-> <<105, 102, 97, 99, 101>>,
      zone            |-> <<122, 111, 110, 101>> ]

\* The metadata keys the model draws from: every key the code names, and
\* three it does not (core < direction, id < iface < max_value_power, zone last).
Keys == DOMAIN Utf8

\* Ord for str: lexicographic comparison of the bytes.
RECURSIVE bytes_lt(_, _)
bytes_lt(a, b) ==
    IF b = <<>> THEN FALSE
    ELSE IF a = <<>> THEN TRUE
    ELSE IF Head(a) # Head(b) THEN Head(a) < Head(b)
    ELSE bytes_lt(Tail(a), Tail(b))

str_lt(j, k) == bytes_lt(Utf8[j], Utf8[k])

(***************************************************************************)
(* BTreeMap<&str, &str>: a sequence of <<key, value>> pairs kept in        *)
(* strictly ascending key order; iteration visits it front to back.        *)
(***************************************************************************)
RECURSIVE BTreeMap_insert(_, _, _)
BTreeMap_insert(bt, k, v) ==
    IF bt = <<>> THEN << <<k, v>> >>
    ELSE IF Head(bt)[1] = k THEN << <<k, v>> >> \o Tail(bt)
    ELSE IF str_lt(k, Head(bt)[1]) THEN << <<k, v>> >> \o bt
    ELSE <<Head(bt)>> \o BTreeMap_insert(Tail(bt), k, v)

BTreeMap_contains(bt, k) == \E i \in 1..Len(bt) : bt[i][1] = k

BTreeMap_get(bt, k) == bt[CHOOSE i \in 1..Len(bt) : bt[i][1] = k][2]

\* A mapping that keeps the entries in the order the HashMap yields them.
RECURSIVE collect_unsorted(_, _)
collect_unsorted(metadata, iter) ==
    IF iter = <<>> THEN <<>>
    ELSE << <<Head(iter), metadata[Head(iter)]>> >>
             \o collect_unsorted(metadata, Tail(iter))

\* metadata.iter().map(..).collect::<BTreeMap<_, _>>(): the entries of the
\* HashMap, visited in its iteration order `iter`, inserted one by one.
RECURSIVE collect_rec(_, _, _)
collect_rec(bt, metadata, iter) ==
    IF iter = <<>> THEN bt
    ELSE collect_rec(BTreeMap_insert(bt, Head(iter), metadata[Head(iter)]),
                     metadata, Tail(iter))

collect(metadata, iter) == collect_rec(<<>>, metadata, iter)

ordered_swapped == <<"name", "state", "op", "direction">>

ordered == <<"name", "op", "state", "direction">>

ignore ==
    {"metric", "unit", "grouping_power", "max_value_power", "id"}
        \cup {ordered[i] : i \in 1..Len(ordered)}

\* for k in ordered { if let Some(v) = metadata.get(&k) { .. + "/" + v } }
RECURSIVE append_ordered(_, _, _)
append_ordered(unique_name, bt, ks) ==
    IF ks = <<>> THEN unique_name
    ELSE append_ordered(
            IF BTreeMap_contains(bt, Head(ks))
            THEN unique_name \o "/" \o BTreeMap_get(bt, Head(ks))
            ELSE unique_name,
            bt, Tail(ks))

\* for (k, v) in &metadata { if ignore.contains(k) { continue } .. + "/" + v }
RECURSIVE append_remaining(_, _)
append_remaining(unique_name, bt) ==
    IF bt = <<>> THEN unique_name
    ELSE append_remaining(
            IF Head(bt)[1] \in ignore THEN unique_name
            ELSE unique_name \o "/" \o Head(bt)[2],
            Tail(bt))

\* if let Some(v) = metadata.get("id") { .. + "/" + v }
append_id(unique_name, bt) ==
    IF BTreeMap_contains(bt, "id")
    THEN unique_name \o "/" \o BTreeMap_get(bt, "id")
    ELSE unique_name

\* The tagged path, lines 91-125; metadata has the key "metric".
tagged_name(metadata, iter) ==
    LET bt == collect(metadata, iter)
    IN  append_id(
            append_remaining(
                append_ordered(metadata["metric"], bt, ordered), bt), bt)

\* Takes the legacy path only when the metadata is empty.
canonicalize_legacy_only_if_empty(snapshot_name, metadata, iter) ==
    IF DOMAIN metadata = {} THEN snapshot_name
    ELSE LET bt == collect(metadata, iter)
             base == IF "metric" \in DOMAIN metadata
                     THEN metadata["metric"] ELSE snapshot_name
         IN  append_id(append_remaining(append_ordered(base, bt, ordered), bt), bt)

\* `iter` is the order in which the HashMap `metadata` yields its keys.
canonicalize_metric_name(snapshot_name, metadata, iter) ==
    IF "metric" \notin DOMAIN metadata THEN snapshot_name
    ELSE tagged_name(metadata, iter)

\* Every order a HashMap over the key set S may iterate in.
RECURSIVE Perms(_)
Perms(S) ==
    IF S = {} THEN {<<>>}
    ELSE UNION {{<<x>> \o p : p \in Perms(S \ {x})} : x \in S}

(***************************************************************************)
(* Integers wider than the checker's.  A u64 is 8 and a u128 is 16 base-256 *)
(* digits, least significant first.                                        *)
(***************************************************************************)
RECURSIVE to_le_bytes(_, _)
to_le_bytes(n, w) ==
    IF w = 0 THEN <<>> ELSE <<n % 256>> \o to_le_bytes(n \div 256, w - 1)

\* x as u128, for a u64 x.
as_u128(x) == x \o to_le_bytes(0, 8)

\* x as u64, for a u128 x: keeps the low 64 bits.
as_u64(x) == SubSeq(x, 1, 8)

\* x * m + c in the width of x, for small m and c.
RECURSIVE mul_add(_, _, _)
mul_add(x, m, c) ==
    IF x = <<>> THEN <<>>
    ELSE LET t == Head(x) * m + c
         IN  <<t % 256>> \o mul_add(Tail(x), m, t \div 256)

\* std::time::Duration is { secs: u64, nanos: u32 } with nanos < 10^9.
\* Duration::as_nanos: secs as u128 * NANOS_PER_SEC + nanos as u128,
\* with NANOS_PER_SEC = 1000 * 1000 * 1000.
Duration_as_nanos(d) ==
    mul_add(mul_add(mul_add(as_u128(d.secs), 1000, 0), 1000, 0), 1000, d.nanos)

\* u64::checked_add(x, k) for a small k: None when the sum needs a 65th bit.
u64_checked_add(x, k) ==
    LET wide == mul_add(x \o <<0>>, 1, k)
    IN  IF wide[9] = 0 THEN Some(SubSeq(wide, 1, 8)) ELSE None

\* Duration::new(secs, nanos): whole seconds held in nanos are carried into
\* secs with checked_add; when that overflows the u64 the call panics, which
\* is the value [panic |-> ..] here.
Duration_new(secs, nanos) ==
    LET sum == u64_checked_add(secs, nanos \div 1000000000)
    IN  IF sum = None THEN [panic |-> "overflow in Duration::new"]
        ELSE [secs |-> sum[1], nanos |-> nanos % 1000000000]

\* std::time::SystemTime, held as its distance to UNIX_EPOCH and the side of
\* the epoch it lies on (pre: strictly earlier than the epoch).
SystemTime_new(pre, since) == [pre |-> pre, since |-> since]

\* Takes the distance to the epoch whichever side the time lies on.
duration_since_abs(t) == [ok |-> TRUE, val |-> t.since]

\* SystemTime::duration_since(UNIX_EPOCH): Err when self is earlier.
duration_since_UNIX_EPOCH(t) ==
    IF t.pre THEN [ok |-> FALSE] ELSE [ok |-> TRUE, val |-> t.since]

(***************************************************************************)
(* The record types and the two snapshot schemas.  A SnapshotV1 has no     *)
(* duration field.                                                         *)
(***************************************************************************)
Counter(name, value, metadata) ==
    [name |-> name, value |-> value, metadata |-> metadata]

Gauge(name, value, metadata) ==
    [name |-> name, value |-> value, metadata |-> metadata]

Histogram(name, value, metadata) ==
    [name |-> name, value |-> value, metadata |-> metadata]

SnapshotV1(systemtime, metadata, counters, gauges, histograms) ==
    [tag |-> "V1", systemtime |-> systemtime, metadata |-> metadata,
     counters |-> counters, gauges |-> gauges, histograms |-> histograms]

SnapshotV2(systemtime, duration, metadata, counters, gauges, histograms) ==
    [tag |-> "V2", systemtime |-> systemtime, duration |-> duration,
     metadata |-> metadata, counters |-> counters, gauges |-> gauges,
     histograms |-> histograms]

\* HashMap::default() and Vec::default(), what std::mem::take leaves behind.
HashMap_default == <<>>

Vec_default == <<>>

(***************************************************************************)
(* impl Snapshot: the accessors.  For a drain accessor X, X(s) is the      *)
(* value returned and X_after(s) is the Snapshot the call leaves.          *)
(***************************************************************************)
systemtime(s) == s.systemtime

\* Reports a zero duration as absent.
duration_zero_is_none(s) ==
    IF s.tag = "V1" THEN None
    ELSE IF Duration_as_nanos(s.duration) = to_le_bytes(0, 16) THEN None
    ELSE Some(s.duration)

duration(s) == IF s.tag = "V1" THEN None ELSE Some(s.duration)

metadata(s) == s.metadata

metadata_after(s) == [s EXCEPT !.metadata = HashMap_default]

counters(s) == s.counters

\* Hands out a copy and leaves the field in place.
counters_after_clone(s) == s

counters_after(s) == [s EXCEPT !.counters = Vec_default]

gauges(s) == s.gauges

\* Clears the counters along with the gauges.
gauges_after_both(s) ==
    [s EXCEPT !.gauges = Vec_default, !.counters = Vec_default]

gauges_after(s) == [s EXCEPT !.gauges = Vec_default]

histograms(s) == s.histograms

histograms_after(s) == [s EXCEPT !.histograms = Vec_default]

Called(op, val) == [op |-> op, val |-> val, first |-> op \notin drained]

CallSystemtime ==
    /\ ret' = [op |-> "systemtime", val |-> systemtime(snapshot), first |-> FALSE]
    /\ UNCHANGED <<snapshot, drained, constructed, cname, cmeta, cresult,
                   hashed, wire, decoded>>

CallDuration ==
    /\ ret' = [op |-> "duration", val |-> duration(snapshot), first |-> FALSE]
    /\ UNCHANGED <<snapshot, drained, constructed, cname, cmeta, cresult,
                   hashed, wire, decoded>>

CallMetadata ==
    /\ ret' = Called("metadata", metadata(snapshot))
    /\ snapshot' = metadata_after(snapshot)
    /\ drained' = drained \cup {"metadata"}
    /\ UNCHANGED <<constructed, cname, cmeta, cresult, hashed, wire, decoded>>

CallCounters ==
    /\ ret' = Called("counters", counters(snapshot))
    /\ snapshot' = counters_after(snapshot)
    /\ drained' = drained \cup {"counters"}
    /\ UNCHANGED <<constructed, cname, cmeta, cresult, hashed, wire, decoded>>

CallGauges ==
    /\ ret' = Called("gauges", gauges(snapshot))
    /\ snapshot' = gauges_after(snapshot)
    /\ drained' = drained \cup {"gauges"}
    /\ UNCHANGED <<constructed, cname, cmeta, cresult, hashed, wire, decoded>>

CallHistograms ==
    /\ ret' = Called("histograms", histograms(snapshot))
    /\ snapshot' = histograms_after(snapshot)
    /\ drained' = drained \cup {"histograms"}
    /\ UNCHANGED <<constructed, cname, cmeta, cresult, hashed, wire, decoded>>

(***************************************************************************)
(* impl From<Snapshot> for HashedSnapshot.                                 *)
(***************************************************************************)
\* Keeps the entry already stored under the key.
HashMap_insert_if_absent(m, k, v) ==
    [x \in DOMAIN m \cup {k} |-> IF x \in DOMAIN m THEN m[x] ELSE v]

\* HashMap::insert: a later value replaces the one stored under the key.
HashMap_insert(m, k, v) ==
    [x \in DOMAIN m \cup {k} |-> IF x = k THEN v ELSE m[x]]

\* HashMap::from_iter: inserts the pairs in the order the iterator yields.
RECURSIVE from_iter_rec(_, _)
from_iter_rec(m, pairs) ==
    IF pairs = <<>> THEN m
    ELSE from_iter_rec(HashMap_insert(m, Head(pairs)[1], Head(pairs)[2]),
                       Tail(pairs))

HashMap_from_iter(pairs) == from_iter_rec(HashMap_default, pairs)

\* .into_iter().map(|v| (canonicalize_metric_name(&v.name, &v.metadata), v));
\* iters[i] is the order in which the i-th record's metadata HashMap iterates.
RECURSIVE map_canonical(_, _)
map_canonical(records, iters) ==
    IF records = <<>> THEN <<>>
    ELSE << <<canonicalize_metric_name(Head(records).name,
                                       Head(records).metadata, Head(iters)),
              Head(records)>> >>
         \o map_canonical(Tail(records), Tail(iters))

\* Every choice of iteration orders for the metadata of a list of records.
RECURSIVE IterChoices(_)
IterChoices(records) ==
    IF records = <<>> THEN {<<>>}
    ELSE {<<it>> \o rest : it \in Perms(DOMAIN Head(records).metadata),
                            rest \in IterChoices(Tail(records))}

\* The mappings HashMap::from_iter(..) can build from a list of records.
rekeyed(records) ==
    {HashMap_from_iter(map_canonical(records, its)) : its \in IterChoices(records)}

\* snapshot.systemtime().duration_since(SystemTime::UNIX_EPOCH)
systemtime_since_epoch(s) == duration_since_UNIX_EPOCH(systemtime(s))

\* .as_nanos() as u64
nanos_u64(d) == as_u64(Duration_as_nanos(d))

\* snapshot.duration().map(|x| x.as_nanos() as u64)
duration_nanos(s) ==
    IF duration(s) = None THEN None ELSE Some(nanos_u64(duration(s)[1]))

NotRun == [st |-> "none"]

Panicked(msg) == [st |-> "panic", msg |-> msg]

HashedSnapshot(ts, dur, cs, gs, hs) ==
    [st |-> "ok", ts |-> ts, duration |-> dur,
     counters |-> cs, gauges |-> gs, histograms |-> hs]

\* The whole of `from`; a panic of .expect(..) unwinds before anything is drained.
From ==
    /\ hashed = NotRun
    /\ LET since == systemtime_since_epoch(snapshot)
       IN  IF ~since.ok
           THEN /\ hashed' = Panicked("System Clock is earlier than 1970; needs reset")
                /\ UNCHANGED snapshot
           ELSE /\ \E cs \in rekeyed(counters(snapshot)) :
                   \E gs \in rekeyed(gauges(counters_after(snapshot))) :
                   \E hs \in rekeyed(histograms(gauges_after(counters_after(snapshot)))) :
                      hashed' = HashedSnapshot(nanos_u64(since.val),
                                               duration_nanos(snapshot), cs, gs, hs)
                /\ snapshot' = histograms_after(gauges_after(counters_after(snapshot)))
    /\ UNCHANGED <<constructed, drained, ret, cname, cmeta, cresult,
                   wire, decoded>>

(***************************************************************************)
(* The serde data model.  An encoded value is a tree of nodes: a map (JSON *)
(* object, msgpack map), a seq (JSON array, msgpack array), an unsigned or *)
(* a negative integer, a string, or a histogram::Histogram, which is kept  *)
(* opaque.  Deserializing an untagged enum buffers the input as such a     *)
(* tree and tries the variants on it in the order they are declared.       *)
(***************************************************************************)
Ok(v) == [ok |-> TRUE, val |-> v]

Err == [ok |-> FALSE]

Node_map(m) == [t |-> "map", m |-> m]

Node_seq(s) == [t |-> "seq", s |-> s]

Node_u64(v) == [t |-> "u64", v |-> v]

Node_i64(v) == [t |-> "i64", v |-> v]

Node_str(v) == [t |-> "str", v |-> v]

Node_histogram(v) == [t |-> "histogram", v |-> v]

\* derive(Serialize) on a struct, fields = <<name, node>> pairs in declaration
\* order: serde_json writes an object keyed by field name, rmp_serde's
\* to_vec writes an array of the values without the names.
ser_struct(fmt, fields) ==
    IF fmt = "json"
    THEN Node_map([k \in {fields[i][1] : i \in 1..Len(fields)} |->
                    fields[CHOOSE i \in 1..Len(fields) : fields[i][1] = k][2]])
    ELSE Node_seq([i \in 1..Len(fields) |-> fields[i][2]])

ser_HashMap(m) == Node_map([k \in DOMAIN m |-> Node_str(m[k])])

\* An i64 that is not negative reads back as an unsigned integer.
ser_i64(v) == IF v < 0 THEN Node_i64(v) ELSE Node_u64(v)

ser_Duration(fmt, d) ==
    ser_struct(fmt, << <<"secs", Node_u64(d.secs)>>, <<"nanos", Node_u64(d.nanos)>> >>)

\* impl Serialize for SystemTime: fails for a time before UNIX_EPOCH.
ser_SystemTime(fmt, t) ==
    LET since == duration_since_UNIX_EPOCH(t)
    IN  IF ~since.ok THEN Err
        ELSE Ok(ser_struct(fmt,
                  << <<"secs_since_epoch", Node_u64(since.val.secs)>>,
                     <<"nanos_since_epoch", Node_u64(since.val.nanos)>> >>))

ser_Counter(fmt, r) ==
    ser_struct(fmt, << <<"name", Node_str(r.name)>>, <<"value", Node_u64(r.value)>>,
                       <<"metadata", ser_HashMap(r.metadata)>> >>)

ser_Gauge(fmt, r) ==
    ser_struct(fmt, << <<"name", Node_str(r.name)>>, <<"value", ser_i64(r.value)>>,
                       <<"metadata", ser_HashMap(r.metadata)>> >>)

ser_Histogram(fmt, r) ==
    ser_struct(fmt, << <<"name", Node_str(r.name)>>,
                       <<"value", Node_histogram(r.value)>>,
                       <<"metadata", ser_HashMap(r.metadata)>> >>)

\* Vec<Counter>, Vec<Gauge>, Vec<Histogram>: a seq of the elements in order.
ser_counters(fmt, v) == Node_seq([i \in 1..Len(v) |-> ser_Counter(fmt, v[i])])

ser_gauges(fmt, v) == Node_seq([i \in 1..Len(v) |-> ser_Gauge(fmt, v[i])])

ser_histograms(fmt, v) == Node_seq([i \in 1..Len(v) |-> ser_Histogram(fmt, v[i])])

ser_collections(fmt, s) ==
    << <<"metadata", ser_HashMap(s.metadata)>>,
       <<"counters", ser_counters(fmt, s.counters)>>,
       <<"gauges", ser_gauges(fmt, s.gauges)>>,
       <<"histograms", ser_histograms(fmt, s.histograms)>> >>

\* derive(Serialize) on SnapshotV1, SnapshotV2 and the untagged Snapshot:
\* the variant's own fields, with nothing that names the variant.
ser_Snapshot(fmt, s) ==
    LET st == ser_SystemTime(fmt, s.systemtime)
    IN  IF ~st.ok THEN Err
        ELSE IF s.tag = "V1"
        THEN Ok(ser_struct(fmt, << <<"systemtime", st.val>> >> \o ser_collections(fmt, s)))
        ELSE Ok(ser_struct(fmt, << <<"systemtime", st.val>>,
                                   <<"duration", ser_Duration(fmt, s.duration)>> >>
                                \o ser_collections(fmt, s)))

\* Snapshot::to_json: serde_json::to_vec(val)? and a trailing b'\n'.
to_json(s) ==
    LET r == ser_Snapshot("json", s)
    IN  IF ~r.ok THEN [st |-> "err"]
        ELSE [st |-> "ok", fmt |-> "json", body |-> r.val, trailer |-> "\n"]

\* Snapshot::to_msgpack: rmp_serde::encode::to_vec(val).
to_msgpack(s) ==
    LET r == ser_Snapshot("msgpack", s)
    IN  IF ~r.ok THEN [st |-> "err"]
        ELSE [st |-> "ok", fmt |-> "msgpack", body |-> r.val, trailer |-> ""]

\* derive(Deserialize) on a struct with the fields `names`, from a buffered
\* node: a map is read by field name and keys that name no field are skipped
\* (no deny_unknown_fields); a seq is read by position and must not be longer
\* than the struct.  struct_field is None where the node has no such field.
struct_readable(c, names) ==
    c.t = "map" \/ (c.t = "seq" /\ Len(c.s) <= Len(names))

struct_field(c, names, i) ==
    IF c.t = "map"
    THEN IF names[i] \in DOMAIN c.m THEN Some(c.m[names[i]]) ELSE None
    ELSE IF i <= Len(c.s) THEN Some(c.s[i]) ELSE None

de_u64(c) == IF c.t = "u64" THEN Ok(c.v) ELSE Err

de_i64(c) == IF c.t \in {"u64", "i64"} THEN Ok(c.v) ELSE Err

de_String(c) == IF c.t = "str" THEN Ok(c.v) ELSE Err

de_histogram(c) == IF c.t = "histogram" THEN Ok(c.v) ELSE Err

de_HashMap(c) ==
    IF c.t = "map" /\ \A k \in DOMAIN c.m : c.m[k].t = "str"
    THEN Ok([k \in DOMAIN c.m |-> c.m[k].v])
    ELSE Err

\* serde's own Deserialize for Duration and SystemTime, a struct of a u64 and
\* a u32 field.  Unlike a derived struct, a map key that names neither field
\* is an error (unknown_field); a seq is read by position.  check_overflow
\* rejects a pair whose nanos carry secs past u64::MAX, and Duration::new
\* carries nanos >= 10^9 into secs.  (Every nanos value the model can hold
\* fits a u32.)
de_pair(c, names) ==
    IF ~struct_readable(c, names) THEN Err
    ELSE IF c.t = "map" /\ ~(DOMAIN c.m \subseteq {names[1], names[2]}) THEN Err
    ELSE LET a == struct_field(c, names, 1)
             b == struct_field(c, names, 2)
         IN  IF a = None \/ b = None THEN Err
             ELSE IF ~de_u64(a[1]).ok \/ ~de_u64(b[1]).ok THEN Err
             ELSE IF u64_checked_add(a[1].v, b[1].v \div 1000000000) = None THEN Err
             ELSE Ok(Duration_new(a[1].v, b[1].v))

de_Duration(c) == de_pair(c, <<"secs", "nanos">>)

\* impl Deserialize for SystemTime: UNIX_EPOCH + the duration read.
\* UNIX_EPOCH.checked_add(duration) fails when the seconds pass i64::MAX.
de_SystemTime(c) ==
    LET d == de_pair(c, <<"secs_since_epoch", "nanos_since_epoch">>)
    IN  IF ~d.ok THEN Err
        ELSE IF d.val.secs[8] >= 128 THEN Err
        ELSE Ok(SystemTime_new(FALSE, d.val))

\* Counter, Gauge and Histogram: { name, value, metadata }, all required.
de_value(kind, c) ==
    IF kind = "u64" THEN de_u64(c)
    ELSE IF kind = "i64" THEN de_i64(c)
    ELSE de_histogram(c)

de_record(c, kind) ==
    LET names == <<"name", "value", "metadata">>
    IN  IF ~struct_readable(c, names) THEN Err
        ELSE LET n == struct_field(c, names, 1)
                 v == struct_field(c, names, 2)
                 m == struct_field(c, names, 3)
             IN  IF n = None \/ v = None \/ m = None THEN Err
                 ELSE IF ~de_String(n[1]).ok \/ ~de_value(kind, v[1]).ok
                         \/ ~de_HashMap(m[1]).ok THEN Err
                 ELSE Ok([name |-> de_String(n[1]).val,
                          value |-> de_value(kind, v[1]).val,
                          metadata |-> de_HashMap(m[1]).val])

de_Counter(c) == de_record(c, "u64")

de_Gauge(c) == de_record(c, "i64")

de_Histogram(c) == de_record(c, "histogram")

\* A field marked serde(default): absent gives the default value.
de_metadata_field(f) == IF f = None THEN Ok(HashMap_default) ELSE de_HashMap(f[1])

\* Vec<Counter>, Vec<Gauge>, Vec<Histogram>: a seq whose elements all read.
de_counters(c) ==
    IF c.t = "seq" /\ \A i \in 1..Len(c.s) : de_Counter(c.s[i]).ok
    THEN Ok([i \in 1..Len(c.s) |-> de_Counter(c.s[i]).val])
    ELSE Err

de_gauges(c) ==
    IF c.t = "seq" /\ \A i \in 1..Len(c.s) : de_Gauge(c.s[i]).ok
    THEN Ok([i \in 1..Len(c.s) |-> de_Gauge(c.s[i]).val])
    ELSE Err

de_histograms(c) ==
    IF c.t = "seq" /\ \A i \in 1..Len(c.s) : de_Histogram(c.s[i]).ok
    THEN Ok([i \in 1..Len(c.s) |-> de_Histogram(c.s[i]).val])
    ELSE Err

\* A field without serde(default): absent is an error.
de_systemtime_field(f) == IF f = None THEN Err ELSE de_SystemTime(f[1])

de_duration_field(f) == IF f = None THEN Err ELSE de_Duration(f[1])

de_counters_field(f) == IF f = None THEN Err ELSE de_counters(f[1])

de_gauges_field(f) == IF f = None THEN Err ELSE de_gauges(f[1])

de_histograms_field(f) == IF f = None THEN Err ELSE de_histograms(f[1])

V1_FIELDS == <<"systemtime", "metadata", "counters", "gauges", "histograms">>

V2_FIELDS ==
    <<"systemtime", "duration", "metadata", "counters", "gauges", "histograms">>

de_SnapshotV1(c) ==
    IF ~struct_readable(c, V1_FIELDS) THEN Err
    ELSE LET st == de_systemtime_field(struct_field(c, V1_FIELDS, 1))
             md == de_metadata_field(struct_field(c, V1_FIELDS, 2))
             cs == de_counters_field(struct_field(c, V1_FIELDS, 3))
             gs == de_gauges_field(struct_field(c, V1_FIELDS, 4))
             hs == de_histograms_field(struct_field(c, V1_FIELDS, 5))
         IN  IF st.ok /\ md.ok /\ cs.ok /\ gs.ok /\ hs.ok
             THEN Ok(SnapshotV1(st.val, md.val, cs.val, gs.val, hs.val))
             ELSE Err

de_SnapshotV2(c) ==
    IF ~struct_readable(c, V2_FIELDS) THEN Err
    ELSE LET st == de_systemtime_field(struct_field(c, V2_FIELDS, 1))
             du == de_duration_field(struct_field(c, V2_FIELDS, 2))
             md == de_metadata_field(struct_field(c, V2_FIELDS, 3))
             cs == de_counters_field(struct_field(c, V2_FIELDS, 4))
             gs == de_gauges_field(struct_field(c, V2_FIELDS, 5))
             hs == de_histograms_field(struct_field(c, V2_FIELDS, 6))
         IN  IF st.ok /\ du.ok /\ md.ok /\ cs.ok /\ gs.ok /\ hs.ok
             THEN Ok(SnapshotV2(st.val, du.val, md.val, cs.val, gs.val, hs.val))
             ELSE Err

\* serde(untagged) on enum Snapshot { V1(..), V2(..) }: the first variant, in
\* declaration order, that deserializes from the buffered node.
de_Snapshot(c) ==
    IF de_SnapshotV1(c).ok THEN de_SnapshotV1(c)
    ELSE IF de_SnapshotV2(c).ok THEN de_SnapshotV2(c)
    ELSE Err

\* serde_json::from_slice / rmp_serde::from_slice of the encoded bytes as a
\* Snapshot; either reader accepts what its encoder wrote (JSON allows the
\* trailing newline).
from_slice(w) ==
    LET r == de_Snapshot(w.body)
    IN  IF r.ok THEN [st |-> "ok", val |-> r.val] ELSE [st |-> "err"]

ToJson ==
    /\ wire.st = "none"
    /\ wire' = to_json(snapshot)
    /\ UNCHANGED <<snapshot, decoded, constructed, drained, ret,
                   cname, cmeta, cresult, hashed>>

ToMsgpack ==
    /\ wire.st = "none"
    /\ wire' = to_msgpack(snapshot)
    /\ UNCHANGED <<snapshot, decoded, constructed, drained, ret,
                   cname, cmeta, cresult, hashed>>

Decode ==
    /\ wire.st = "ok"
    /\ decoded.st = "none"
    /\ decoded' = from_slice(wire)
    /\ UNCHANGED <<snapshot, wire, constructed, drained, ret,
                   cname, cmeta, cresult, hashed>>

(***************************************************************************)
(* Inputs.                                                                 *)
(***************************************************************************)
MaxMeta == 4

MaxRecords == 2

MetricValues == {"cpu", "net"}

ValueOf ==
    [ metric |-> "cpu", name |-> "ctx", op |-> "busy", state |-> "user",
      direction |-> "rx", unit |-> "bytes", grouping_power |-> "7",
      max_value_power |-> "64", id |-> "0", core |-> "c3",
      iface |-> "eth0", zone |-> "z9" ]

RawNames == {"cpu.usage", "m123"}

MetaOn(S, mv) == [k \in S |-> IF k = "metric" THEN mv ELSE ValueOf[k]]

\* Every metadata mapping of at most MaxMeta of the keys.
MetaMaps ==
    {MetaOn(S, mv) : S \in {T \in SUBSET Keys : Cardinality(T) <= MaxMeta},
                     mv \in MetricValues}

\* Durations: zero, 5 s, 5 s + 7 ns, 2^64 - 1 ns and 2^64 ns
\* (2^64 = 18446744073 * 10^9 + 709551616).
Zero == Duration_new(to_le_bytes(0, 8), 0)

FiveSeconds == Duration_new(to_le_bytes(5, 8), 0)

FiveSecondsAndSome == Duration_new(to_le_bytes(5, 8), 7)

MaxU64Nanos == Duration_new(<<9, 250, 130, 75, 4, 0, 0, 0>>, 709551615)

OverU64Nanos == Duration_new(<<9, 250, 130, 75, 4, 0, 0, 0>>, 709551616)

OneSecond == Duration_new(to_le_bytes(1, 8), 0)

BeforeEpoch == SystemTime_new(TRUE, OneSecond)

Seqs(S, n) == UNION {[1..k -> S] : k \in 0..n}

Snapshots(times, durations, metas, cs, gs, hs) ==
    {SnapshotV1(t, m, c, g, h) :
        t \in times, m \in metas, c \in cs, g \in gs, h \in hs}
    \cup
    {SnapshotV2(t, d, m, c, g, h) :
        t \in times, d \in durations, m \in metas, c \in cs, g \in gs, h \in hs}

TopMetadata == {HashMap_default, [source |-> "rezolus"]}

\* Records for the accessors and the encoders.
SmallCounters ==
    { Counter("cpu.usage", 1, HashMap_default),
      Counter("m1", 2, [metric |-> "cpu", id |-> "0"]) }

SmallGauges == { Gauge("temp", -5, HashMap_default) }

SmallHistograms == { Histogram("lat", "H1", [metric |-> "lat"]) }

SmallSnapshots(times) ==
    Snapshots(times, {Zero, FiveSeconds}, TopMetadata,
              Seqs(SmallCounters, MaxRecords), Seqs(SmallGauges, MaxRecords),
              Seqs(SmallHistograms, MaxRecords))

\* Snapshots the accessors are called on.
AccessorSnapshots == SmallSnapshots({SystemTime_new(FALSE, FiveSecondsAndSome)})

\* Snapshots that are encoded; one of a time before the epoch cannot be.
CodecSnapshots ==
    SmallSnapshots({BeforeEpoch, SystemTime_new(FALSE, FiveSecondsAndSome)})

\* Snapshots for the projection: records that canonicalize to the same name
\* in every collection at one time, and a few records at times on both sides
\* of the epoch and of 2^64 ns.
ProjCounters ==
    { Counter("m1", 1, [metric |-> "cpu", id |-> "0"]),
      Counter("m2", 2, [metric |-> "cpu", id |-> "0"]),
      Counter("cpu.usage", 3, HashMap_default) }

ProjGauges ==
    { Gauge("temp", -5, HashMap_default),
      Gauge("m7", 7, [metric |-> "temp"]) }

ProjHistograms ==
    { Histogram("m8", "H1", [metric |-> "lat", zone |-> "z9", core |-> "c3"]),
      Histogram("lat/c3/z9", "H2", HashMap_default) }

ProjSnapshots ==
    Snapshots({SystemTime_new(FALSE, FiveSecondsAndSome)},
              {FiveSeconds}, {HashMap_default},
              Seqs(ProjCounters, MaxRecords), Seqs(ProjGauges, MaxRecords),
              Seqs(ProjHistograms, MaxRecords))
    \cup
    Snapshots({BeforeEpoch} \cup
              {SystemTime_new(FALSE, d) :
                  d \in {Zero, FiveSecondsAndSome, MaxU64Nanos, OverU64Nanos}},
              {Zero, FiveSeconds, MaxU64Nanos, OverU64Nanos}, {HashMap_default},
              Seqs(SmallCounters, MaxRecords), Seqs(SmallGauges, MaxRecords),
              Seqs(SmallHistograms, MaxRecords))

NoCall == [op |-> "none", val |-> <<>>, first |-> FALSE]

NoSnapshot == [tag |-> "none"]

CanonIdle == cname = "" /\ cmeta = HashMap_default /\ cresult = None

SnapshotIdle ==
    /\ snapshot = NoSnapshot /\ constructed = NoSnapshot
    /\ drained = {} /\ ret = NoCall

Constructed(S) ==
    /\ snapshot \in S
    /\ constructed = snapshot
    /\ drained = {}
    /\ ret = NoCall

ProjIdle == hashed = NotRun

CodecIdle == wire = [st |-> "none"] /\ decoded = [st |-> "none"]

(***************************************************************************)
(* Specifications.                                                         *)
(***************************************************************************)
\* canonicalize_metric_name applied to one name and one metadata mapping,
\* whose HashMap iterates in any order.
InitCanon ==
    /\ cname \in RawNames
    /\ cmeta \in MetaMaps
    /\ cresult = None
    /\ SnapshotIdle /\ ProjIdle /\ CodecIdle

Canonicalize ==
    /\ cresult = None
    /\ \E iter \in Perms(DOMAIN cmeta) :
          cresult' = Some(canonicalize_metric_name(cname, cmeta, iter))
    /\ UNCHANGED <<cname, cmeta, snapshot, constructed, drained, ret,
                   hashed, wire, decoded>>

NextCanon == Canonicalize

SpecCanon == InitCanon /\ [][NextCanon]_vars

\* Any sequence of accessor calls on one Snapshot.
Init == Constructed(AccessorSnapshots) /\ CanonIdle /\ ProjIdle /\ CodecIdle

Next ==
    \/ CallSystemtime
    \/ CallDuration
    \/ CallMetadata
    \/ CallCounters
    \/ CallGauges
    \/ CallHistograms

Spec == Init /\ [][Next]_vars

\* One Snapshot projected into a HashedSnapshot.
InitProj == Constructed(ProjSnapshots) /\ CanonIdle /\ ProjIdle /\ CodecIdle

NextProj == From

SpecProj == InitProj /\ [][NextProj]_vars

\* One Snapshot encoded with either encoder and decoded again.
InitCodec == Constructed(CodecSnapshots) /\ CanonIdle /\ ProjIdle /\ CodecIdle

NextCodec ==
    \/ ToJson
    \/ ToMsgpack
    \/ Decode

SpecCodec == InitCodec /\ [][NextCodec]_vars

(***************************************************************************)
(* Properties.                                                             *)
(***************************************************************************)
Drains == {"metadata", "counters", "gauges", "histograms"}

\* The name the specification gives for a tagged metadata mapping.
Dim(md, k, s) == IF k \in DOMAIN md THEN s \o "/" \o md[k] ELSE s

Least(S) == CHOOSE x \in S : \A y \in S : y = x \/ str_lt(x, y)

RECURSIVE JoinAscending(_, _, _)
JoinAscending(md, S, s) ==
    IF S = {} THEN s
    ELSE JoinAscending(md, S \ {Least(S)}, s \o "/" \o md[Least(S)])

ExpectedTagged(md) ==
    LET dims == Dim(md, "direction",
                  Dim(md, "state", Dim(md, "op", Dim(md, "name", md["metric"]))))
        rest == DOMAIN md \ {"metric", "unit", "grouping_power", "max_value_power",
                             "id", "name", "op", "state", "direction"}
    IN  Dim(md, "id", JoinAscending(md, rest, dims))

\* C1: with `metric` present the result is metadata["metric"], then "/"+value
\* for name, op, state, direction in that order, then "/"+value for every key
\* outside the ignore set in ascending key order, then "/"+metadata["id"];
\* the raw name plays no part.
C1_TaggedName ==
    (cresult # None /\ "metric" \in DOMAIN cmeta)
        => cresult = Some(ExpectedTagged(cmeta))

C1_Witness ==
    /\ cmeta = [metric |-> "cpu", op |-> "busy", state |-> "user", id |-> "0"]
    /\ cname = "m123"
    /\ cresult = Some("cpu/busy/user/0")

\* C5: without a `metric` key the raw name is returned unchanged, whatever
\* other keys the metadata holds.
C5_LegacyName ==
    (cresult # None /\ "metric" \notin DOMAIN cmeta) => cresult = Some(cname)

C5_Witness ==
    /\ DOMAIN cmeta = {"name", "op", "id", "zone"}
    /\ cname = "cpu.usage"
    /\ cresult = Some("cpu.usage")

\* C6: the result is the same for every order in which the metadata mapping
\* may iterate its entries.
C6_OrderIndependent ==
    cresult # None =>
        \A iter \in Perms(DOMAIN cmeta) :
            cresult = Some(canonicalize_metric_name(cname, cmeta, iter))

C6_Witness ==
    /\ DOMAIN cmeta = {"metric", "zone", "core", "iface"}
    /\ cmeta["metric"] = "net"
    /\ cresult = Some("net/c3/eth0/z9")

\* C2: the first call of a drain accessor returns the field as constructed,
\* every later call of it returns an empty collection.
C2_DrainOnce ==
    ret.op \in Drains =>
        IF ret.first THEN ret.val = constructed[ret.op]
        ELSE ret.val = <<>>

C2_Witness ==
    /\ ret.op = "counters"
    /\ ~ret.first
    /\ Len(constructed.counters) = 2
    /\ ret.val = <<>>

\* C7: duration() is None for a V1 Snapshot and Some(d) for a V2 Snapshot
\* constructed with duration d, zero included, whatever was drained before.
C7_Duration ==
    ret.op = "duration" =>
        /\ constructed.tag = "V1" => ret.val = None
        /\ constructed.tag = "V2" => ret.val = Some(constructed.duration)
                                     /\ ret.val # None

C7_Witness ==
    /\ ret.op = "duration"
    /\ constructed.tag = "V2"
    /\ constructed.duration = Zero
    /\ drained = Drains
    /\ ret.val = Some(Zero)

\* C10: a drain accessor empties only its own field; the other collections,
\* the systemtime, the duration and the variant stay as constructed, so the
\* first call of each drain accessor returns the original content.
C10_Frame ==
    /\ snapshot.tag = constructed.tag
    /\ snapshot.systemtime = constructed.systemtime
    /\ snapshot.tag = "V2" => snapshot.duration = constructed.duration
    /\ \A f \in Drains \ drained : snapshot[f] = constructed[f]
    /\ (ret.op \in Drains /\ ret.first) => ret.val = constructed[ret.op]

C10_Witness ==
    /\ ret.op = "counters"
    /\ ret.first
    /\ drained = Drains
    /\ Len(constructed.counters) = 2
    /\ constructed.gauges # <<>>
    /\ ret.val = constructed.counters

\* The names the records at the positions of `records` canonicalize to.
NamesOf(r) ==
    {canonicalize_metric_name(r.name, r.metadata, iter) :
        iter \in Perms(DOMAIN r.metadata)}

LastNamed(records, k) ==
    records[CHOOSE i \in 1..Len(records) :
               /\ k \in NamesOf(records[i])
               /\ \A j \in (i + 1)..Len(records) : k \notin NamesOf(records[j])]

LastWins(m, records) ==
    /\ DOMAIN m = UNION {NamesOf(records[i]) : i \in 1..Len(records)}
    /\ \A k \in DOMAIN m : m[k] = LastNamed(records, k)

\* C4: each projected mapping has one entry per canonical name occurring in
\* the input sequence, holding the last record of that name in input order.
C4_LastWins ==
    hashed.st = "ok" =>
        /\ LastWins(hashed.counters, constructed.counters)
        /\ LastWins(hashed.gauges, constructed.gauges)
        /\ LastWins(hashed.histograms, constructed.histograms)

C4_Witness ==
    /\ hashed.st = "ok"
    /\ constructed.counters = << Counter("m2", 2, [metric |-> "cpu", id |-> "0"]),
                                 Counter("m1", 1, [metric |-> "cpu", id |-> "0"]) >>
    /\ DOMAIN hashed.counters = {"cpu/0"}
    /\ hashed.counters["cpu/0"].name = "m1"
    /\ Len(constructed.gauges) = 2
    /\ Cardinality(DOMAIN hashed.gauges) = 1

\* C8: a Snapshot whose systemtime is before the epoch never yields a
\* HashedSnapshot; the projection panics.
C8_PreEpochPanics ==
    (constructed.systemtime.pre /\ hashed # NotRun) => hashed.st = "panic"

C8_Witness ==
    /\ constructed.systemtime = BeforeEpoch
    /\ hashed.st = "panic"
    /\ snapshot = constructed

\* C9: for a systemtime at or after the epoch, ts is the number of
\* nanoseconds from the epoch to systemtime and duration is the snapshot's
\* duration in nanoseconds when present, absent otherwise.
C9_ExactNanos ==
    hashed.st = "ok" =>
        /\ as_u128(hashed.ts) = Duration_as_nanos(constructed.systemtime.since)
        /\ constructed.tag = "V1" => hashed.duration = None
        /\ constructed.tag = "V2" =>
              /\ hashed.duration # None
              /\ as_u128(hashed.duration[1]) = Duration_as_nanos(constructed.duration)

\* C3: encoding a Snapshot with either encoder and decoding the bytes gives
\* a Snapshot with the same systemtime, duration() and records.
C3_RoundTrip ==
    decoded.st # "none" =>
        /\ decoded.st = "ok"
        /\ systemtime(decoded.val) = systemtime(constructed)
        /\ duration(decoded.val) = duration(constructed)
        /\ counters(decoded.val) = counters(constructed)
        /\ gauges(decoded.val) = gauges(constructed)
        /\ histograms(decoded.val) = histograms(constructed)

====
